---- MODULE Spec2Model ----
(***************************************************************************)
(* Card presentation helpers of content_manager/blocks.py:                 *)
(* CardstructValue.enlarge_link and CardstructValue.image_classes,         *)
(* evaluated on the cards of a page.                                       *)
(*                                                                         *)
(* A card is the StructValue of a CardBlock.  Its two stream fields are    *)
(* modelled by their raw_data (a sequence of {"type", "value"} entries),   *)
(* which is what enlarge_link indexes.  A Python dict is a TLA+ record, a  *)
(* missing key is a name that is not in the record's DOMAIN.               *)
(***************************************************************************)
EXTENDS Integers, Sequences, FiniteSets, TLC

\* Bounds of the model.
MaxTags == 2
MaxCalls == 2
NumCards == 2
MaxLinks == 2

\* Python's None.
None == "None"

\* Python truthiness of an optional string or reference.
Truthy(v) == v # None /\ v # ""

SeqsUpTo(S, n) == UNION {[1..k -> S] : k \in 0..n}

(***************************************************************************)
(* Values of the card fields.                                              *)
(***************************************************************************)

\* LinkWithoutLabelBlock: page (PageChooserBlock) and external_url (URLBlock),
\* both required=False.
LinkValues ==
    [page : {None, "page:1"}, external_url : {None, "", "https://tag.example/"}]

\* Raw value of a TagBlock; link is not required, a stored tag may lack the key.
TagRawValues ==
    {[label |-> "tag"]} \cup {[label |-> "tag", link |-> l] : l \in LinkValues}

\* Raw entries of a TagListBlock.
TagRawEntries == {[type |-> "tag", value |-> v] : v \in TagRawValues}

\* Raw entries of a BadgesListBlock.
BadgeRawLists ==
    { <<>>,
      << [type |-> "badge", value |-> [text |-> "new", color |-> "", hide_icon |-> FALSE]] >> }

\* CardBlock.top_detail_badges_tags: at most one entry, badges or tags.
TopDetailValues ==
    { <<>> }
    \cup { << [type |-> "badges", value |-> b] >> : b \in BadgeRawLists }
    \cup { << [type |-> "tags", value |-> t] >> : t \in SeqsUpTo(TagRawEntries, MaxTags) }

\* CardBlock.call_to_action: at most one entry, links or buttons.
CallToActionValues ==
    { <<>>,
      << [type |-> "links", value |-> << [type |-> "link", value |-> [text |-> "more"]] >>] >>,
      << [type |-> "buttons", value |-> << [type |-> "button", value |-> [text |-> "go"]] >>] >> }

\* CardBlock.url, CardBlock.document and CardBlock.image_ratio.
UrlValues == {None, "", "https://example.org/"}
DocumentValues == {None, "document:1"}
ImageRatioValues == {None, "", "fr-ratio-3x2", "h3"}

CardBlock ==
    [ url : UrlValues,
      document : DocumentValues,
      top_detail_badges_tags : TopDetailValues,
      call_to_action : CallToActionValues,
      image_ratio : ImageRatioValues ]

\* The cards of a page of several cards.
PageCardBlock ==
    { c \in CardBlock :
        /\ c.url \in {None, "https://example.org/"}
        /\ c.document = None
        /\ c.image_ratio \in {"", "fr-ratio-3x2"}
        /\ c.call_to_action \in {<<>>}
        /\ \/ c.top_detail_badges_tags = <<>>
           \/ /\ c.top_detail_badges_tags[1].type = "tags"
              /\ Len(c.top_detail_badges_tags[1].value) = 1
              /\ "link" \in DOMAIN c.top_detail_badges_tags[1].value[1].value
              /\ c.top_detail_badges_tags[1].value[1].value.link.page = None
              /\ c.top_detail_badges_tags[1].value[1].value.link.external_url # None }

(***************************************************************************)
(* CardstructValue.enlarge_link                                            *)
(***************************************************************************)

\* Outcome of a call: the returned bool, or the exception it raises.
PyBool(b) == IF b THEN "True" ELSE "False"

\* The target test left out.
HasLinkTarget_Always(url, document) == TRUE

\* The document forgotten as a target.
HasLinkTarget_UrlOnly(url, document) == Truthy(url)

\* `url or document`
HasLinkTarget(url, document) == Truthy(url) \/ Truthy(document)

\* Only a links entry counted as a call-to-action.
HasCallToAction_LinksOnly(call_to_action) ==
    /\ Len(call_to_action) # 0
    /\ call_to_action[1].type = "links"

\* `len(call_to_action)` as a condition
HasCallToAction(call_to_action) == Len(call_to_action) # 0

\* The type of the entry not tested.
IsTagsEntry_AnyEntry(top_detail_badges_tags) == Len(top_detail_badges_tags) # 0

\* `len(top_detail_badges_tags) and top_detail_badges_tags.raw_data[0]["type"] == "tags"`
IsTagsEntry(top_detail_badges_tags) ==
    /\ Len(top_detail_badges_tags) # 0
    /\ top_detail_badges_tags[1].type = "tags"

\* `tag["value"]["link"]["page"] is not None or tag["value"]["link"]["external_url"] != ""`
TagHasLink(tag) ==
    \/ tag.value.link.page # None
    \/ tag.value.link.external_url # ""

\* `for tag in tags_list:` from the k-th tag on, with the current value of
\* enlarge; tag["value"]["link"] raises KeyError when the key is missing.
RECURSIVE TagsLoop(_, _, _)
TagsLoop(tags_list, k, enlarge) ==
    IF k > Len(tags_list) THEN PyBool(enlarge)
    ELSE IF "link" \notin DOMAIN tags_list[k].value THEN "KeyError"
    ELSE IF TagHasLink(tags_list[k]) THEN TagsLoop(tags_list, k + 1, FALSE)
    ELSE TagsLoop(tags_list, k + 1, enlarge)

enlarge_link(self) ==
    IF ~HasLinkTarget(self.url, self.document) THEN PyBool(FALSE)
    ELSE IF HasCallToAction(self.call_to_action) THEN PyBool(FALSE)
    ELSE IF IsTagsEntry(self.top_detail_badges_tags)
         THEN TagsLoop(self.top_detail_badges_tags[1].value, 1, TRUE)
    ELSE PyBool(TRUE)

(***************************************************************************)
(* CardstructValue.image_classes                                           *)
(***************************************************************************)

\* The separating space left out of the f-string.
image_classes_NoSpace(self) ==
    IF Truthy(self.image_ratio)
    THEN "fr-responsive-img" \o self.image_ratio
    ELSE "fr-responsive-img"

image_classes(self) ==
    IF Truthy(self.image_ratio)
    THEN "fr-responsive-img " \o self.image_ratio
    ELSE "fr-responsive-img"

(***************************************************************************)
(* The cards of a page and the calls the card templates make on them.      *)
(***************************************************************************)

VARIABLES page, enlargeLog, classesLog, links, urlLog

vars == <<page, enlargeLog, classesLog, links, urlLog>>

\* Every call bound to one shared instance.
Self_Shared(i) == page[1]

\* The instance a method call is bound to.
Self(i) == page[i]

\* The top-detail stream consumed by the call.
SelfAfterEnlargeLink_Consumes(self) == [self EXCEPT !.top_detail_badges_tags = <<>>]

\* The instance after a call: neither method assigns to self.
SelfAfterEnlargeLink(self) == self
SelfAfterImageClasses(self) == self

InitLogs ==
    /\ enlargeLog = [i \in DOMAIN page |-> <<>>]
    /\ classesLog = [i \in DOMAIN page |-> <<>>]
    /\ urlLog = [j \in DOMAIN links |-> <<>>]

\* One card, any content.
Init ==
    /\ page \in [1..1 -> CardBlock]
    /\ links = <<>>
    /\ InitLogs

\* A page of several cards.
InitPage ==
    /\ page \in [1..NumCards -> PageCardBlock]
    /\ links = <<>>
    /\ InitLogs

\* card i's template evaluates value.enlarge_link
EnlargeLink(i) ==
    /\ Len(enlargeLog[i]) < MaxCalls
    /\ enlargeLog' = [enlargeLog EXCEPT ![i] = Append(@, enlarge_link(Self(i)))]
    /\ page' = [page EXCEPT ![i] = SelfAfterEnlargeLink(Self(i))]
    /\ UNCHANGED <<classesLog, links, urlLog>>

\* card i's template evaluates value.image_classes
ImageClasses(i) ==
    /\ Len(classesLog[i]) < MaxCalls
    /\ classesLog' = [classesLog EXCEPT ![i] = Append(@, image_classes(Self(i)))]
    /\ page' = [page EXCEPT ![i] = SelfAfterImageClasses(Self(i))]
    /\ UNCHANGED <<enlargeLog, links, urlLog>>

Next ==
    \/ \E i \in DOMAIN page : EnlargeLink(i)
    \/ \E i \in DOMAIN page : ImageClasses(i)

Spec == Init /\ [][Next]_vars

PageSpec == InitPage /\ [][Next]_vars

(***************************************************************************)
(* LinkStructValue.url, on the links of a list of links, buttons or tags.  *)
(***************************************************************************)

\* The pages a PageChooserBlock can hold.
PageValues == {"page:1", "page:2"}

\* `page.url` of each page.
PageUrl == [p \in PageValues |-> IF p = "page:1" THEN "/page-1/" ELSE "/page-2/"]

\* Values of a LinkWithoutLabelBlock: page and external_url, both optional.
LinkStructValues ==
    [ page : {None} \cup PageValues,
      external_url : {None, "", "https://a.example/", "https://b.example/"} ]

\* The page preferred to the external URL.
LinkStructValue_url_PageFirst(self) ==
    IF self.page # None THEN PageUrl[self.page]
    ELSE IF Truthy(self.external_url) THEN self.external_url
    ELSE "AttributeError"

\* `return external_url or page.url`; page.url raises AttributeError when the
\* page is None.
LinkStructValue_url(self) ==
    IF Truthy(self.external_url) THEN self.external_url
    ELSE IF self.page = None THEN "AttributeError"
    ELSE PageUrl[self.page]

\* A list of links, none resolved yet.
LinkInit ==
    /\ page = <<>>
    /\ links \in UNION {[1..n -> LinkStructValues] : n \in 1..MaxLinks}
    /\ InitLogs

\* a link template evaluates value.url on the j-th link
LinkUrl(j) ==
    /\ Len(urlLog[j]) < MaxCalls
    /\ urlLog' = [urlLog EXCEPT ![j] = Append(@, LinkStructValue_url(links[j]))]
    /\ UNCHANGED <<page, enlargeLog, classesLog, links>>

LinkNext == \E j \in DOMAIN links : LinkUrl(j)

LinkSpec == LinkInit /\ [][LinkNext]_vars

(***************************************************************************)
(* Properties                                                              *)
(***************************************************************************)

Base == "fr-responsive-img"

\* The card has no link target: url absent or empty, and no document.
NoTarget(c) == c.url \in {None, ""} /\ c.document = None

\* The tag's raw value carries a link whose page or external URL is populated.
TagLinked(tag) ==
    /\ "link" \in DOMAIN tag.value
    /\ \/ tag.value.link.page # None
       \/ tag.value.link.external_url \notin {None, ""}

\* The tag's raw value carries a link with neither a page nor an external URL.
TagUnlinked(tag) ==
    /\ "link" \in DOMAIN tag.value
    /\ tag.value.link.page = None
    /\ tag.value.link.external_url \in {None, ""}

TopIs(c, type) ==
    /\ c.top_detail_badges_tags # <<>>
    /\ c.top_detail_badges_tags[1].type = type

TagsOf(c) == c.top_detail_badges_tags[1].value

\* C1: enlarge_link returns True only for a card with a link target; a card
\* with no url (absent or empty) and no document gets False, whatever its
\* call-to-action and top-detail slot contain.
C1_NoTargetNoEnlarge ==
    \A i \in DOMAIN page : \A k \in DOMAIN enlargeLog[i] :
        /\ enlargeLog[i][k] = "True" => ~NoTarget(page[i])
        /\ NoTarget(page[i]) => enlargeLog[i][k] = "False"

C1_Witness ==
    \E i \in DOMAIN page :
        /\ NoTarget(page[i])
        /\ page[i].call_to_action # <<>>
        /\ TopIs(page[i], "tags")
        /\ \E t \in DOMAIN TagsOf(page[i]) : TagLinked(TagsOf(page[i])[t])
        /\ enlargeLog[i] # <<>>
        /\ enlargeLog[i][1] = "False"

\* C2: a card with a call-to-action entry (links or buttons) gets False from
\* enlarge_link, whatever its url, document and top-detail slot.
C2_CallToActionNoEnlarge ==
    \A i \in DOMAIN page : \A k \in DOMAIN enlargeLog[i] :
        Len(page[i].call_to_action) > 0 => enlargeLog[i][k] = "False"

C2_Witness ==
    \E i \in DOMAIN page :
        /\ page[i].url = "https://example.org/"
        /\ page[i].call_to_action # <<>>
        /\ page[i].call_to_action[1].type = "buttons"
        /\ page[i].top_detail_badges_tags = <<>>
        /\ enlargeLog[i] # <<>>
        /\ enlargeLog[i][1] = "False"

\* C3: a card with a link target, no call-to-action and a tags entry gets
\* False from enlarge_link when at least one tag, at any position, has a
\* populated link, whatever the other tags are.
C3_LinkedTagNoEnlarge ==
    \A i \in DOMAIN page : \A k \in DOMAIN enlargeLog[i] :
        ( /\ ~NoTarget(page[i])
          /\ page[i].call_to_action = <<>>
          /\ TopIs(page[i], "tags")
          /\ \E t \in DOMAIN TagsOf(page[i]) : TagLinked(TagsOf(page[i])[t]) )
        => enlargeLog[i][k] = "False"

\* C4: a card with a url, no call-to-action and a tags entry whose tags all
\* have a link with no page and no external URL (empty or None) gets True
\* from enlarge_link; the empty tag list included.
C4_UnlinkedTagsEnlarge ==
    \A i \in DOMAIN page : \A k \in DOMAIN enlargeLog[i] :
        ( /\ Truthy(page[i].url)
          /\ page[i].call_to_action = <<>>
          /\ TopIs(page[i], "tags")
          /\ \A t \in DOMAIN TagsOf(page[i]) : TagUnlinked(TagsOf(page[i])[t]) )
        => enlargeLog[i][k] = "True"

\* C5: a card with a url, no call-to-action and a badges entry gets True from
\* enlarge_link, whatever the badges entry contains.
C5_BadgesEnlarge ==
    \A i \in DOMAIN page : \A k \in DOMAIN enlargeLog[i] :
        ( /\ Truthy(page[i].url)
          /\ page[i].call_to_action = <<>>
          /\ TopIs(page[i], "badges") )
        => enlargeLog[i][k] = "True"

C5_Witness ==
    \E i \in DOMAIN page :
        /\ Truthy(page[i].url)
        /\ page[i].call_to_action = <<>>
        /\ TopIs(page[i], "badges")
        /\ page[i].top_detail_badges_tags[1].value # <<>>
        /\ enlargeLog[i] # <<>>
        /\ enlargeLog[i][1] = "True"

\* C6: image_classes returns the base class alone when image_ratio is None or
\* empty, and the base class, one space and the ratio otherwise; the result
\* starts with the base class and depends on no other field.
C6_ImageClasses ==
    \A i \in DOMAIN page : \A k \in DOMAIN classesLog[i] :
        /\ SubSeq(classesLog[i][k], 1, Len(Base)) = Base
        /\ page[i].image_ratio \in {None, ""} => classesLog[i][k] = Base
        /\ page[i].image_ratio \notin {None, ""}
              => classesLog[i][k] = Base \o " " \o page[i].image_ratio
        /\ page[i].image_ratio = "fr-ratio-3x2"
              => classesLog[i][k] = "fr-responsive-img fr-ratio-3x2"

C6_Witness ==
    \E i \in DOMAIN page :
        /\ page[i].image_ratio = "fr-ratio-3x2"
        /\ classesLog[i] # <<>>
        /\ classesLog[i][1] = "fr-responsive-img fr-ratio-3x2"

\* C7: no call of enlarge_link or image_classes raises: every call returns a
\* bool, respectively a class string.
C7_NeverRaises ==
    \A i \in DOMAIN page :
        /\ \A k \in DOMAIN enlargeLog[i] : enlargeLog[i][k] \in {"True", "False"}
        /\ \A k \in DOMAIN classesLog[i] :
              SubSeq(classesLog[i][k], 1, Len(Base)) = Base

ResolvesAlone(i) ==
    /\ page' = page
    /\ \A j \in DOMAIN page \ {i} :
          enlargeLog'[j] = enlargeLog[j] /\ classesLog'[j] = classesLog[j]
    /\ \/ /\ enlargeLog'[i] = Append(enlargeLog[i], enlarge_link(page[i]))
          /\ classesLog'[i] = classesLog[i]
       \/ /\ classesLog'[i] = Append(classesLog[i], image_classes(page[i]))
          /\ enlargeLog'[i] = enlargeLog[i]

Retargeted(c) ==
    { [c EXCEPT !.url = "https://example.org/", !.document = None],
      [c EXCEPT !.url = None, !.document = "document:1"],
      [c EXCEPT !.url = "", !.document = "document:1"],
      [c EXCEPT !.url = "https://example.org/", !.document = "document:1"] }

\* C10: for a card with a link target, the outcome of enlarge_link is the one
\* of the same card with the target held by the url only, by the document
\* only, or by both; a card with a document, no url, no call-to-action and an
\* empty top-detail slot gets True.
C10_UrlDocumentInterchangeable ==
    \A i \in DOMAIN page : \A k \in DOMAIN enlargeLog[i] :
        /\ ~NoTarget(page[i]) =>
              \A d \in Retargeted(page[i]) : enlargeLog[i][k] = enlarge_link(d)
        /\ ( /\ page[i].document # None
             /\ page[i].url \in {None, ""}
             /\ page[i].call_to_action = <<>>
             /\ page[i].top_detail_badges_tags = <<>> )
           => enlargeLog[i][k] = "True"

C10_Witness ==
    \E i \in DOMAIN page :
        /\ page[i].document = "document:1"
        /\ page[i].url = None
        /\ page[i].call_to_action = <<>>
        /\ page[i].top_detail_badges_tags = <<>>
        /\ enlargeLog[i] # <<>>
        /\ enlargeLog[i][1] = "True"

\* C11: LinkStructValue.url returns the external URL whenever it is non-empty,
\* with or without a page; it returns the page's url when the external URL is
\* empty or None and a page is chosen; it yields a URL for every link with a
\* page or a non-empty external URL.
C11_LinkUrl ==
    \A j \in DOMAIN links : \A k \in DOMAIN urlLog[j] :
        /\ links[j].external_url \notin {None, ""}
              => urlLog[j][k] = links[j].external_url
        /\ (links[j].external_url \in {None, ""} /\ links[j].page # None)
              => urlLog[j][k] = PageUrl[links[j].page]
        /\ (links[j].external_url \notin {None, ""} \/ links[j].page # None)
              => urlLog[j][k] \in {"https://a.example/", "https://b.example/", "/page-1/", "/page-2/"}

C11_Witness ==
    \E j, m \in DOMAIN links :
        /\ links[j].page # None
        /\ links[j].external_url = "https://a.example/"
        /\ urlLog[j] # <<>>
        /\ urlLog[j][1] = "https://a.example/"
        /\ links[m].page # None
        /\ links[m].external_url = ""
        /\ urlLog[m] # <<>>
        /\ urlLog[m][1] = "/page-2/"

====
